---- MODULE Spec2Model ----
(***************************************************************************)
(* Loan / inventory core of the library application (src/app.py).         *)
(*                                                                         *)
(* The two tables livros and emprestimos are modelled with the columns    *)
(* the loan logic reads or writes: quantidade_total and                   *)
(* quantidade_disponivel of a book; livro_id, data_prevista_devolucao,    *)
(* data_devolucao and status of a loan.  The descriptive columns (titulo, *)
(* autor, nome_aluno, serie, data_emprestimo, ...) are never read by the  *)
(* loan logic and are left out.  Dates are day numbers 1..MaxDia.         *)
(*                                                                         *)
(* Spec          requests run one at a time, each handler is one step.    *)
(* SpecSemEdicao the same, without atualizar_livro.                       *)
(* SpecDatas     the handlers that write emprestimos, one at a time, with *)
(*               the loan dates and the clock over the whole calendar.    *)
(* SpecConc      criar_emprestimo and registrar_devolucao on one book run *)
(*               statement by statement in NumProcs concurrent requests,  *)
(*               each in its own READ COMMITTED transaction (the psycopg2 *)
(*               default): writes become visible at commit, an UPDATE     *)
(*               holds a row lock until commit and applies to the row     *)
(*               version current when the lock is obtained.               *)
(***************************************************************************)
EXTENDS Integers, FiniteSets, Sequences, TLC

\* ---------------------------------------------------------------- bounds
NumLivros == 2
MaxQtd    == 2
MaxEmp    == 2
MaxDia    == 2
NumProcs  == 2

IdsLivro  == 1..NumLivros
IdsEmp    == 1..MaxEmp
Dias      == 1..MaxDia
Procs     == 1..NumProcs
MesmoDia  == {1}
\* quantities the edit form can carry: int() accepts any integer; a sample
QuantidadesTotal == {MaxQtd}
QuantidadesDisp  == {0, MaxQtd}

\* ------------------------------------------------------------- constants
NULL == 0
EM_ABERTO == "EM_ABERTO"
DEVOLVIDO == "DEVOLVIDO"

OK                  == "ok"
ErrQuantidade       == "Quantidade deve ser um numero inteiro maior que zero."
ErrIdDuplicado      == "Ja existe um livro com esse ID. Escolha outro ID."
ErrJaExisteAberto   == "Ja existe um emprestimo em aberto para este livro."
ErrLivroNaoEncontrado == "Livro nao encontrado."
ErrIndisponivel     == "Nao ha exemplares disponiveis deste livro."
ErrEmpNaoEncontrado == "Emprestimo nao encontrado."
ErrJaDevolvido      == "Este emprestimo ja esta devolvido."

VARIABLES
    livros,        \* table livros: id -> [quantidade_total, quantidade_disponivel]
    emprestimos,   \* table emprestimos: id -> [livro_id, data_prevista_devolucao, data_devolucao, status]
    proximo_id,    \* next value of the SERIAL sequence of emprestimos.id
    incrementos,   \* history: loan id -> number of +1 applied to its book on its return
    ult,           \* message of the last request that finished (OK or the error raised)
    proc           \* per concurrent request: position and locals

vars == <<livros, emprestimos, proximo_id, incrementos, ult, proc>>

\* ------------------------------------------------------ table operations
\* a request that is not running: no position, no locals
Ocioso == [pc |-> "ocioso", livro_id |-> NULL, emp_id |-> NULL, prevista |-> NULL, hoje |-> NULL]

\* SELECT COUNT(*) FROM emprestimos WHERE livro_id = b AND status = 'EM_ABERTO'
AbertosDe(emps, b) ==
    {e \in DOMAIN emps : emps[e].livro_id = b /\ emps[e].status = EM_ABERTO}

ContaAbertosSemFiltro(emps, b) == 0

ContaAbertos(emps, b) == Cardinality(AbertosDe(emps, b))

IndisponivelSoNegativo(livro) == livro.quantidade_disponivel < 0

\* if livro["quantidade_disponivel"] <= 0
Indisponivel(livro) == livro.quantidade_disponivel <= 0

JaDevolvidoNunca(emp) == FALSE

\* if emp["status"] == "DEVOLVIDO"
JaDevolvido(emp) == emp.status = DEVOLVIDO

\* INSERT INTO livros (..., quantidade_total, quantidade_disponivel) VALUES (..., quantidade, quantidade)
InsereLivro(lvs, id, quantidade) ==
    [x \in DOMAIN lvs \cup {id} |->
        IF x = id
        THEN [quantidade_total |-> quantidade, quantidade_disponivel |-> quantidade]
        ELSE lvs[x]]

\* UPDATE livros SET quantidade_total = qt, quantidade_disponivel = qd WHERE id = id
AtualizaLivro(lvs, id, qt, qd) ==
    [x \in DOMAIN lvs |->
        IF x = id
        THEN [quantidade_total |-> qt, quantidade_disponivel |-> qd]
        ELSE lvs[x]]

ApagaEmprestimosDoLivroNenhum(emps, b) == emps

\* DELETE FROM emprestimos WHERE livro_id = b  (and ON DELETE CASCADE)
ApagaEmprestimosDoLivro(emps, b) ==
    [e \in {x \in DOMAIN emps : emps[x].livro_id # b} |-> emps[e]]

\* DELETE FROM livros WHERE id = b
ApagaLivro(lvs, b) == [x \in DOMAIN lvs \ {b} |-> lvs[x]]

\* INSERT INTO emprestimos (livro_id, ..., data_prevista_devolucao, status)
\* VALUES (b, ..., prevista, 'EM_ABERTO'); data_devolucao is left NULL
InsereEmprestimo(emps, id, b, prevista) ==
    [e \in DOMAIN emps \cup {id} |->
        IF e = id
        THEN [livro_id |-> b, data_prevista_devolucao |-> prevista,
              data_devolucao |-> NULL, status |-> EM_ABERTO]
        ELSE emps[e]]

DecrementaDisponivelRecalculado(lvs, b) ==
    [x \in DOMAIN lvs |->
        IF x = b
        THEN [lvs[x] EXCEPT !.quantidade_disponivel = lvs[x].quantidade_total - 1]
        ELSE lvs[x]]

\* UPDATE livros SET quantidade_disponivel = quantidade_disponivel - 1 WHERE id = b
DecrementaDisponivel(lvs, b) ==
    [x \in DOMAIN lvs |->
        IF x = b THEN [lvs[x] EXCEPT !.quantidade_disponivel = @ - 1] ELSE lvs[x]]

IncrementaDisponivelEsquecido(lvs, b) == lvs

\* UPDATE livros SET quantidade_disponivel = quantidade_disponivel + 1 WHERE id = b
IncrementaDisponivel(lvs, b) ==
    [x \in DOMAIN lvs |->
        IF x = b THEN [lvs[x] EXCEPT !.quantidade_disponivel = @ + 1] ELSE lvs[x]]

MarcaDevolvidoSemData(emps, e, dia) ==
    [x \in DOMAIN emps |->
        IF x = e THEN [emps[x] EXCEPT !.status = DEVOLVIDO] ELSE emps[x]]

\* UPDATE emprestimos SET status = 'DEVOLVIDO', data_devolucao = dia WHERE id = e
MarcaDevolvido(emps, e, dia) ==
    [x \in DOMAIN emps |->
        IF x = e
        THEN [emps[x] EXCEPT !.status = DEVOLVIDO, !.data_devolucao = dia]
        ELSE emps[x]]

\* history bookkeeping of the +1 a return applies on behalf of loan e
ContaIncremento(incs, e) ==
    [x \in DOMAIN incs |-> IF x = e THEN incs[x] + 1 ELSE incs[x]]

\* ------------------------------------------------------------------ Init
Init ==
    /\ livros = << >>
    /\ emprestimos = << >>
    /\ proximo_id = 1
    /\ incrementos = << >>
    /\ ult = OK
    /\ proc = [p \in Procs |-> Ocioso]

\* ------------------------------------------- handlers, one request a step

\* novo_livro (POST) -> criar_livro
CriarLivro(id, quantidade) ==
    /\ IF quantidade <= 0
       THEN /\ ult' = ErrQuantidade
            /\ UNCHANGED livros
       ELSE IF id \in DOMAIN livros
       THEN /\ ult' = ErrIdDuplicado
            /\ UNCHANGED livros
       ELSE /\ livros' = InsereLivro(livros, id, quantidade)
            /\ ult' = OK
    /\ UNCHANGED <<emprestimos, proximo_id, incrementos, proc>>

\* editar_livro (POST) -> atualizar_livro
AtualizarLivro(id, qt, qd) ==
    /\ IF id \notin DOMAIN livros
       THEN /\ ult' = ErrLivroNaoEncontrado
            /\ UNCHANGED livros
       ELSE /\ livros' = AtualizaLivro(livros, id, qt, qd)
            /\ ult' = OK
    /\ UNCHANGED <<emprestimos, proximo_id, incrementos, proc>>

\* excluir_livro -> excluir_livro_db
ExcluirLivro(id) ==
    /\ emprestimos' = ApagaEmprestimosDoLivro(emprestimos, id)
    /\ incrementos' = [e \in DOMAIN emprestimos' |-> incrementos[e]]
    /\ livros' = ApagaLivro(livros, id)
    /\ ult' = OK
    /\ UNCHANGED <<proximo_id, proc>>

\* criar_emprestimo
CriarEmprestimo(b, prevista) ==
    /\ proximo_id <= MaxEmp
    /\ IF ContaAbertos(emprestimos, b) > 0
       THEN /\ ult' = ErrJaExisteAberto
            /\ UNCHANGED <<livros, emprestimos, proximo_id, incrementos>>
       ELSE IF b \notin DOMAIN livros
       THEN /\ ult' = ErrLivroNaoEncontrado
            /\ UNCHANGED <<livros, emprestimos, proximo_id, incrementos>>
       ELSE IF Indisponivel(livros[b])
       THEN /\ ult' = ErrIndisponivel
            /\ UNCHANGED <<livros, emprestimos, proximo_id, incrementos>>
       ELSE /\ emprestimos' = InsereEmprestimo(emprestimos, proximo_id, b, prevista)
            /\ incrementos' = [e \in DOMAIN emprestimos' |->
                                  IF e = proximo_id THEN 0 ELSE incrementos[e]]
            /\ proximo_id' = proximo_id + 1
            /\ livros' = DecrementaDisponivel(livros, b)
            /\ ult' = OK
    /\ UNCHANGED proc

\* registrar_devolucao
RegistrarDevolucao(e, hoje) ==
    /\ IF e \notin DOMAIN emprestimos
       THEN /\ ult' = ErrEmpNaoEncontrado
            /\ UNCHANGED <<livros, emprestimos, incrementos>>
       ELSE IF JaDevolvido(emprestimos[e])
       THEN /\ ult' = ErrJaDevolvido
            /\ UNCHANGED <<livros, emprestimos, incrementos>>
       ELSE /\ emprestimos' = MarcaDevolvido(emprestimos, e, hoje)
            /\ livros' = IncrementaDisponivel(livros, emprestimos[e].livro_id)
            /\ incrementos' = ContaIncremento(incrementos, e)
            /\ ult' = OK
    /\ UNCHANGED <<proximo_id, proc>>

\* requests whose dates (data_prevista_devolucao, today) are drawn from DD
Emprestar(DD) == \E b \in IdsLivro, d \in DD : CriarEmprestimo(b, d)

Devolver(DD) == \E e \in IdsEmp, hoje \in DD : RegistrarDevolucao(e, hoje)

Cadastrar == \E id \in IdsLivro, q \in 0..MaxQtd : CriarLivro(id, q)

Editar == \E id \in IdsLivro, qt \in QuantidadesTotal, qd \in QuantidadesDisp : AtualizarLivro(id, qt, qd)

Excluir == \E id \in IdsLivro : ExcluirLivro(id)

\* registrations of MaxQtd copies
CadastrarCheio == \E id \in IdsLivro : CriarLivro(id, MaxQtd)

\* the handlers that write emprestimos, one request at a time, with dates over
\* the whole calendar; the overdue report reads no copy count, so books are
\* registered with MaxQtd copies and not edited
NextDatas == CadastrarCheio \/ Excluir \/ Emprestar(Dias) \/ Devolver(Dias)

SpecDatas == Init /\ [][NextDatas]_vars

\* every handler, one request at a time; no handler branches on a date, so
\* the claims that do not read dates are checked with all requests on one day
Next == Cadastrar \/ Editar \/ Excluir \/ Emprestar(MesmoDia) \/ Devolver(MesmoDia)

Spec == Init /\ [][Next]_vars

\* the same without atualizar_livro
NextSemEdicao == Cadastrar \/ Excluir \/ Emprestar(MesmoDia) \/ Devolver(MesmoDia)

SpecSemEdicao == Init /\ [][NextSemEdicao]_vars

\* --------------------------- concurrent requests, one SQL statement a step
\* Each request is one transaction (with get_connection() as conn: ... commit).
\* Its INSERT/UPDATE are applied to the committed tables at its commit; an
\* UPDATE first takes the row's lock, which the transaction holds until its
\* commit, so the SET expression is evaluated on the row as last committed.
\* Each request answers its own client: a position back at "ocioso" is its
\* end, and ult (the one-at-a-time handlers' message) is left alone.

\* the lock on row b of livros is held from UPDATE livros to the commit
TravaLivro(q, b) ==
    /\ proc[q].pc \in {"ce_commit", "rd_commit"}
    /\ proc[q].livro_id = b

\* the lock on row e of emprestimos is held from UPDATE emprestimos to the commit
TravaEmprestimo(q, e) ==
    /\ proc[q].pc \in {"rd_upd_livro", "rd_commit"}
    /\ proc[q].emp_id = e

\* ids the sequence still has to hand to requests that passed no INSERT yet
Reservados == Cardinality({q \in Procs : proc[q].pc \in {"ce_disp", "ce_insert"}})

\* criar_emprestimo: SELECT COUNT(*) ... status = 'EM_ABERTO'
CE_Count(p, b, prevista) ==
    /\ proc[p].pc = "ocioso"
    /\ proximo_id + Reservados <= MaxEmp
    /\ IF ContaAbertos(emprestimos, b) > 0
       THEN /\ UNCHANGED <<ult, proc>>
       ELSE /\ proc' = [proc EXCEPT ![p] = [Ocioso EXCEPT !.pc = "ce_disp",
                                             !.livro_id = b, !.prevista = prevista]]
            /\ UNCHANGED ult
    /\ UNCHANGED <<livros, emprestimos, proximo_id, incrementos>>

\* criar_emprestimo: SELECT quantidade_disponivel FROM livros WHERE id = b
CE_Disp(p) ==
    /\ proc[p].pc = "ce_disp"
    /\ IF proc[p].livro_id \notin DOMAIN livros
       THEN /\ proc' = [proc EXCEPT ![p] = Ocioso]
            /\ UNCHANGED ult
       ELSE IF Indisponivel(livros[proc[p].livro_id])
       THEN /\ proc' = [proc EXCEPT ![p] = Ocioso]
            /\ UNCHANGED ult
       ELSE /\ proc' = [proc EXCEPT ![p].pc = "ce_insert"]
            /\ UNCHANGED ult
    /\ UNCHANGED <<livros, emprestimos, proximo_id, incrementos>>

\* criar_emprestimo: INSERT INTO emprestimos; the SERIAL id is drawn now
CE_Insert(p) ==
    /\ proc[p].pc = "ce_insert"
    /\ proc' = [proc EXCEPT ![p].pc = "ce_update", ![p].emp_id = proximo_id]
    /\ proximo_id' = proximo_id + 1
    /\ UNCHANGED <<livros, emprestimos, incrementos, ult>>

\* criar_emprestimo: UPDATE livros SET quantidade_disponivel = quantidade_disponivel - 1
CE_Update(p) ==
    /\ proc[p].pc = "ce_update"
    /\ \A q \in Procs \ {p} : ~TravaLivro(q, proc[p].livro_id)
    /\ proc' = [proc EXCEPT ![p].pc = "ce_commit"]
    /\ UNCHANGED <<livros, emprestimos, proximo_id, incrementos, ult>>

CE_CommitSeDisponivel(p) ==
    /\ proc[p].pc = "ce_commit"
    /\ emprestimos' = InsereEmprestimo(emprestimos, proc[p].emp_id,
                                       proc[p].livro_id, proc[p].prevista)
    /\ incrementos' = [e \in DOMAIN emprestimos' |->
                          IF e = proc[p].emp_id THEN 0 ELSE incrementos[e]]
    /\ livros' = [livros EXCEPT ![proc[p].livro_id].quantidade_disponivel =
                     IF @ > 0 THEN @ - 1 ELSE @]
    /\ proc' = [proc EXCEPT ![p] = Ocioso]
    /\ UNCHANGED <<proximo_id, ult>>

\* criar_emprestimo: conn.commit()
CE_Commit(p) ==
    /\ proc[p].pc = "ce_commit"
    /\ emprestimos' = InsereEmprestimo(emprestimos, proc[p].emp_id,
                                       proc[p].livro_id, proc[p].prevista)
    /\ incrementos' = [e \in DOMAIN emprestimos' |->
                          IF e = proc[p].emp_id THEN 0 ELSE incrementos[e]]
    /\ livros' = DecrementaDisponivel(livros, proc[p].livro_id)
    /\ proc' = [proc EXCEPT ![p] = Ocioso]
    /\ UNCHANGED <<proximo_id, ult>>

\* registrar_devolucao: hoje = today; SELECT * FROM emprestimos WHERE id = e
RD_Select(p, e, hoje) ==
    /\ proc[p].pc = "ocioso"
    /\ IF e \notin DOMAIN emprestimos
       THEN /\ UNCHANGED <<ult, proc>>
       ELSE IF JaDevolvido(emprestimos[e])
       THEN /\ UNCHANGED <<ult, proc>>
       ELSE /\ proc' = [proc EXCEPT ![p] = [Ocioso EXCEPT !.pc = "rd_upd_emp",
                                             !.emp_id = e, !.hoje = hoje,
                                             !.livro_id = emprestimos[e].livro_id]]
            /\ UNCHANGED ult
    /\ UNCHANGED <<livros, emprestimos, proximo_id, incrementos>>

\* registrar_devolucao: UPDATE emprestimos SET status = 'DEVOLVIDO', data_devolucao = hoje
RD_UpdEmp(p) ==
    /\ proc[p].pc = "rd_upd_emp"
    /\ \A q \in Procs \ {p} : ~TravaEmprestimo(q, proc[p].emp_id)
    /\ proc' = [proc EXCEPT ![p].pc = "rd_upd_livro"]
    /\ UNCHANGED <<livros, emprestimos, proximo_id, incrementos, ult>>

\* registrar_devolucao: UPDATE livros SET quantidade_disponivel = quantidade_disponivel + 1
RD_UpdLivro(p) ==
    /\ proc[p].pc = "rd_upd_livro"
    /\ \A q \in Procs \ {p} : ~TravaLivro(q, proc[p].livro_id)
    /\ proc' = [proc EXCEPT ![p].pc = "rd_commit"]
    /\ UNCHANGED <<livros, emprestimos, proximo_id, incrementos, ult>>

RD_CommitSeAberto(p) ==
    /\ proc[p].pc = "rd_commit"
    /\ emprestimos' = MarcaDevolvido(emprestimos, proc[p].emp_id, proc[p].hoje)
    /\ IF emprestimos[proc[p].emp_id].status = EM_ABERTO
       THEN /\ livros' = IncrementaDisponivel(livros, proc[p].livro_id)
            /\ incrementos' = ContaIncremento(incrementos, proc[p].emp_id)
       ELSE UNCHANGED <<livros, incrementos>>
    /\ proc' = [proc EXCEPT ![p] = Ocioso]
    /\ UNCHANGED <<proximo_id, ult>>

\* registrar_devolucao: conn.commit()
RD_Commit(p) ==
    /\ proc[p].pc = "rd_commit"
    /\ emprestimos' = MarcaDevolvido(emprestimos, proc[p].emp_id, proc[p].hoje)
    /\ livros' = IncrementaDisponivel(livros, proc[p].livro_id)
    /\ incrementos' = ContaIncremento(incrementos, proc[p].emp_id)
    /\ proc' = [proc EXCEPT ![p] = Ocioso]
    /\ UNCHANGED <<proximo_id, ult>>

\* the book the interleaved requests compete for: requests on different books
\* touch different rows and do not interact
LivroDisputado == {1}

\* the book is registered and then left alone: it is neither edited nor
\* deleted while loan requests interleave
NextConc ==
    \/ \E id \in LivroDisputado, q \in 0..MaxQtd : CriarLivro(id, q)
    \/ \E p \in Procs, b \in LivroDisputado, d \in MesmoDia : CE_Count(p, b, d)
    \/ \E p \in Procs : CE_Disp(p)
    \/ \E p \in Procs : CE_Insert(p)
    \/ \E p \in Procs : CE_Update(p)
    \/ \E p \in Procs : CE_Commit(p)
    \/ \E p \in Procs, e \in IdsEmp, hoje \in MesmoDia : RD_Select(p, e, hoje)
    \/ \E p \in Procs : RD_UpdEmp(p)
    \/ \E p \in Procs : RD_UpdLivro(p)
    \/ \E p \in Procs : RD_Commit(p)

SpecConc == Init /\ [][NextConc]_vars

\* ------------------------------------------------------ overdue report
AtrasadoInclusive(emp, dia) ==
    /\ emp.status = EM_ABERTO
    /\ emp.data_prevista_devolucao <= dia

\* WHERE e.status = 'EM_ABERTO' AND e.data_prevista_devolucao < hoje
Atrasado(emp, dia) ==
    /\ emp.status = EM_ABERTO
    /\ emp.data_prevista_devolucao < dia

\* FROM emprestimos e JOIN livros l ON e.livro_id = l.id WHERE ...
LinhasAtrasados(emps, lvs, dia) ==
    {r \in (DOMAIN emps) \X (DOMAIN lvs) :
        emps[r[1]].livro_id = r[2] /\ Atrasado(emps[r[1]], dia)}

\* get_emprestimos_atrasados on day dia: the joined rows, each once, in an
\* order ORDER BY e.data_prevista_devolucao allows (ties in any order)
get_emprestimos_atrasados(emps, lvs, dia) ==
    LET L == LinhasAtrasados(emps, lvs, dia)
        n == Cardinality(L)
    IN  {r \in [1..n -> L] :
            /\ \A i, j \in 1..n : i # j => r[i] # r[j]
            /\ \A i, j \in 1..n :
                  i < j => emps[r[i][1]].data_prevista_devolucao
                              <= emps[r[j][1]].data_prevista_devolucao}

\* ================================================================= claims
\* the EM_ABERTO loans of book b in the current tables
NumAbertos(b) ==
    Cardinality({e \in DOMAIN emprestimos :
                    emprestimos[e].livro_id = b /\ emprestimos[e].status = "EM_ABERTO"})

\* how far the stored available count is from total minus open loans
Discrepancia(lvs, emps, b) ==
    lvs[b].quantidade_disponivel
      - (lvs[b].quantidade_total
           - Cardinality({e \in DOMAIN emps :
                            emps[e].livro_id = b /\ emps[e].status = "EM_ABERTO"}))

\* C1: with requests one at a time and no atualizar_livro, every book has
\* quantidade_disponivel = quantidade_total - (its EM_ABERTO loans) and
\* 0 <= quantidade_disponivel <= quantidade_total.
C1_DisponivelConsistente ==
    \A b \in DOMAIN livros :
        /\ livros[b].quantidade_disponivel = livros[b].quantidade_total - NumAbertos(b)
        /\ 0 <= livros[b].quantidade_disponivel
        /\ livros[b].quantidade_disponivel <= livros[b].quantidade_total

\* a book of two copies with one loan returned and another one open
C1_Witness ==
    \E b \in DOMAIN livros :
        /\ livros[b].quantidade_total = 2
        /\ NumAbertos(b) = 1
        /\ \E e \in DOMAIN emprestimos :
              emprestimos[e].livro_id = b /\ emprestimos[e].status = "DEVOLVIDO"

\* C2: one at a time (edits included), no book ever has two EM_ABERTO loans,
\* and criar_emprestimo on a book with an EM_ABERTO loan fails with the
\* conflict error and writes nothing.
C2_UmAbertoPorLivro ==
    /\ [](\A b \in IdsLivro : NumAbertos(b) <= 1)
    /\ [][\A b \in IdsLivro, d \in MesmoDia :
            (CriarEmprestimo(b, d) /\ NumAbertos(b) > 0)
               => /\ ult' = ErrJaExisteAberto
                  /\ emprestimos' = emprestimos
                  /\ livros' = livros]_vars

\* the conflict error was raised for a book that has copies on the shelf
C2_Witness ==
    /\ ult = ErrJaExisteAberto
    /\ \E b \in DOMAIN livros :
          NumAbertos(b) = 1 /\ livros[b].quantidade_disponivel >= 1
    /\ \A b \in DOMAIN livros : NumAbertos(b) = 1

\* C3 as stated: criar_emprestimo on an existing book with
\* quantidade_disponivel = 0 always fails with the unavailable error, inserts
\* no loan and leaves the book alone.
C3_Original ==
    [][\A b \in IdsLivro, d \in MesmoDia :
         (CriarEmprestimo(b, d) /\ b \in DOMAIN livros
             /\ livros[b].quantidade_disponivel = 0)
            => /\ ult' = ErrIndisponivel
               /\ emprestimos' = emprestimos
               /\ livros' = livros]_vars

\* C3 amended: such a request always fails and writes nothing; the error is
\* the unavailable error when the book has no EM_ABERTO loan and the conflict
\* error when it has one (the open-loan check runs first).
C3_FalhaSemExemplar ==
    [][\A b \in IdsLivro, d \in MesmoDia :
         (CriarEmprestimo(b, d) /\ b \in DOMAIN livros
             /\ livros[b].quantidade_disponivel = 0)
            => /\ ult' = IF NumAbertos(b) > 0 THEN ErrJaExisteAberto ELSE ErrIndisponivel
               /\ emprestimos' = emprestimos
               /\ livros' = livros]_vars

\* the unavailable error was raised, and the only books without copies have
\* exactly 0 available and no open loan
C3_Witness ==
    /\ ult = ErrIndisponivel
    /\ \E b \in DOMAIN livros : livros[b].quantidade_disponivel = 0
    /\ \A b \in DOMAIN livros :
          livros[b].quantidade_disponivel <= 0
             => livros[b].quantidade_disponivel = 0 /\ NumAbertos(b) = 0

\* C4: registrar_devolucao on a DEVOLVIDO loan fails with the already-returned
\* error and changes neither table, so no loan has raised its book's
\* quantidade_disponivel more than once.
C4_DevolucaoUmaVez ==
    /\ [](\A e \in DOMAIN incrementos : incrementos[e] <= 1)
    /\ [][\A e \in IdsEmp, h \in MesmoDia :
            (RegistrarDevolucao(e, h) /\ e \in DOMAIN emprestimos
                /\ emprestimos[e].status = "DEVOLVIDO")
               => /\ ult' = ErrJaDevolvido
                  /\ livros' = livros
                  /\ emprestimos' = emprestimos]_vars

\* a second return was refused for a loan that had been returned once
C4_Witness ==
    /\ ult = ErrJaDevolvido
    /\ \E e \in DOMAIN emprestimos :
          emprestimos[e].status = "DEVOLVIDO" /\ incrementos[e] = 1

C6_ExclusaoEmCascata ==
    /\ [](\A e \in DOMAIN emprestimos : emprestimos[e].livro_id \in DOMAIN livros)
    /\ [][\A b \in IdsLivro :
            ExcluirLivro(b)
               => /\ ult' = OK
                  /\ DOMAIN livros' = DOMAIN livros \ {b}
                  /\ \A x \in DOMAIN livros' : livros'[x] = livros[x]
                  /\ DOMAIN emprestimos'
                        = {e \in DOMAIN emprestimos : emprestimos[e].livro_id # b}
                  /\ \A e \in DOMAIN emprestimos' : emprestimos'[e] = emprestimos[e]
                  /\ (b \notin DOMAIN livros
                        => livros' = livros /\ emprestimos' = emprestimos)]_vars

\* loans were made, none is left, and another book is still in the catalogue
C6_Witness ==
    /\ ult = OK
    /\ proximo_id > 1
    /\ emprestimos = << >>
    /\ DOMAIN livros # {}

\* C7: on any day D the overdue report lists exactly the EM_ABERTO loans with
\* data_prevista_devolucao < D, each once.
C7_AtrasadosExatos ==
    \A D \in Dias :
        LET R == get_emprestimos_atrasados(emprestimos, livros, D)
            esperado == {e \in DOMAIN emprestimos :
                            /\ emprestimos[e].status = "EM_ABERTO"
                            /\ emprestimos[e].data_prevista_devolucao < D}
        IN  /\ R # {}
            /\ \A r \in R :
                  /\ {r[i][1] : i \in DOMAIN r} = esperado
                  /\ Cardinality(DOMAIN r) = Cardinality(esperado)

\* an open loan due on day 1 (late on day 2, not late on day 1) beside a
\* returned loan that was due on day 1
C7_Witness ==
    /\ \E e \in DOMAIN emprestimos :
          emprestimos[e].status = "EM_ABERTO" /\ emprestimos[e].data_prevista_devolucao = 1
    /\ \E e \in DOMAIN emprestimos :
          emprestimos[e].status = "DEVOLVIDO" /\ emprestimos[e].data_prevista_devolucao = 1

\* C8: a committing criar_emprestimo inserts its EM_ABERTO loan and lowers the
\* quantidade_disponivel stored at that moment by one, whatever other
\* requests committed since its checks; so two interleaved requests leave two
\* EM_ABERTO loans on one book and -1 available on a one-copy book.
C8_CommitSemRevalidar ==
    [][\A p \in Procs :
         CE_Commit(p)
            => /\ proc[p].emp_id \notin DOMAIN emprestimos
               /\ emprestimos'[proc[p].emp_id].status = "EM_ABERTO"
               /\ emprestimos'[proc[p].emp_id].livro_id = proc[p].livro_id
               /\ livros'[proc[p].livro_id].quantidade_disponivel
                     = livros[proc[p].livro_id].quantidade_disponivel - 1]_vars

\* two EM_ABERTO loans on a book of one copy, whose available count is -1
C8_Witness ==
    \E b \in DOMAIN livros :
        /\ livros[b].quantidade_total = 1
        /\ livros[b].quantidade_disponivel = -1
        /\ NumAbertos(b) = 2

\* C9: atualizar_livro stores the two counts as given, and every
\* criar_emprestimo and registrar_devolucao, successful or not, leaves each
\* book's discrepancy quantidade_disponivel - (quantidade_total - open loans)
\* as it was.
C9_DiscrepanciaPersiste ==
    [][/\ \A b \in DOMAIN livros, qt \in QuantidadesTotal, qd \in QuantidadesDisp :
            AtualizarLivro(b, qt, qd)
               => /\ livros'[b] = [quantidade_total |-> qt, quantidade_disponivel |-> qd]
                  /\ emprestimos' = emprestimos
       /\ \/ \A b \in DOMAIN livros :
                /\ b \in DOMAIN livros'
                /\ Discrepancia(livros', emprestimos', b)
                      = Discrepancia(livros, emprestimos, b)
          \/ ~(Emprestar(MesmoDia) \/ Devolver(MesmoDia))]_vars

\* a book whose counts disagree with its loans, with an available count that
\* no edit wrote: loans moved it after the edit and the discrepancy stayed
C9_Witness ==
    \E b \in DOMAIN livros :
        /\ Discrepancia(livros, emprestimos, b) # 0
        /\ livros[b].quantidade_disponivel \notin QuantidadesDisp

\* C10: a committing registrar_devolucao marks its loan DEVOLVIDO and raises
\* the book's quantidade_disponivel by one even when a concurrent request
\* already returned the loan since this one read it; so one loan can raise
\* the count twice and push it above quantidade_total.
C10_CommitSemRevalidar ==
    [][\A p \in Procs :
         RD_Commit(p)
            => /\ emprestimos'[proc[p].emp_id].status = "DEVOLVIDO"
               /\ livros'[proc[p].livro_id].quantidade_disponivel
                     = livros[proc[p].livro_id].quantidade_disponivel + 1]_vars

\* one loan raised its book's count twice: more copies available than owned
C10_Witness ==
    \E e \in DOMAIN emprestimos :
        /\ incrementos[e] = 2
        /\ livros[emprestimos[e].livro_id].quantidade_disponivel
              > livros[emprestimos[e].livro_id].quantidade_total
====
